---------------------------- MODULE Spec2Model ----------------------------
(***************************************************************************)
(* QuizMe: the SM-2 review scheduler (src/spaced-repetition.js), the LLM   *)
(* response parser and the question bank (quiz-generator.js, database.js), *)
(* the quiz endpoints (server.js) and the client-side answer grading       *)
(* (docs/implementation-plan.md, app.js).                                  *)
(*                                                                         *)
(* Units.  An ease factor is an integer number of thousandths (2.5 is      *)
(* 2500), so that rounding to two decimals is a real operation.  Time is   *)
(* counted in ticks, TicksPerDay of them to a day.                         *)
(***************************************************************************)
EXTENDS Integers, Sequences, FiniteSets, TLC

VARIABLES
    now,            \* the wall clock, in ticks
    sm_phase,       \* scheduler pipeline: "idle" | "graded" | "scheduled"
    sm_current,     \* the review state handed to calculateNextReview
    sm_answer,      \* the (isCorrect, confidenceBonus) given to answerToQuality
    sm_quality,     \* the quality grade handed to calculateNextReview
    sm_result,      \* what calculateNextReview returned
    apiKey,         \* config: whether an OpenRouter API key is stored
    dailyQuestionCount, \* config: the dailyQuestionCount of config.json
    projects,       \* table projects: rows [id, path]
    questions,      \* table questions: rows [id, project_id]
    reviews,        \* table reviews: one row per reviewed question
    sessions,       \* table sessions
    seq,            \* the AUTOINCREMENT counters of the tables
    pending,        \* generate requests waiting for the LLM to answer
    response,       \* what the last request answered
    streak,         \* history: per question, the successful answers since
                    \* its last failed one (kept for the properties only)
    quizQuestions,  \* client: the served batch
    quizCurrentIndex,
    quizScore,
    answered,
    selectedAnswer,
    lastCorrect,
    openAnswerText,
    posts,          \* client: the requests it has sent to the server
    llm_shape,      \* history: how the text of the LLM's answer is made up
                    \* (kept for the properties only)
    llm_raw,        \* parser: the text of the LLM's answer
    llm_parsed      \* parser: what parseQuestions made of it

smVars == <<sm_phase, sm_current, sm_answer, sm_quality, sm_result>>

storeVars == <<apiKey, dailyQuestionCount, projects, questions, reviews, sessions, seq, pending,
               response, streak>>

clientVars == <<quizQuestions, quizCurrentIndex, quizScore, answered,
                selectedAnswer, lastCorrect, openAnswerText, posts>>

parserVars == <<llm_shape, llm_raw, llm_parsed>>

vars == <<now, smVars, storeVars, clientVars, parserVars>>

Min(a, b) == IF a < b THEN a ELSE b

Max(a, b) == IF a > b THEN a ELSE b

(***************************************************************************)
(* Bounds of the model.                                                    *)
(***************************************************************************)
TicksPerDay == 1

MaxInterval == 6

MaxReps == 2

MaxEaseIn == 2600

QualitySlack == 2

MaxBonus == 2

MaxTime == 1

MaxProjects == 1

MaxQuestions == 2

MaxBatch == 2

MaxPending == 1

MaxSessions == 1

MaxScore == 1

MaxStreak == 3

MaxWords == 3

MaxServed == 2

MaxElems == 3

MaxSmallBank == 5

(***************************************************************************)
(* spaced-repetition.js                                                    *)
(***************************************************************************)
DefaultEase == 2500

DefaultInterval == 0

DefaultRepetitions == 0

MinEase == 1300

MinQuality == 0

MaxQuality == 5

PassQuality == 3

FirstInterval == 1

SecondInterval == 6

CorrectQuality == 4

WrongQuality == 1

\* Math.round(num / den) for num >= 0, den > 0: the nearest integer, a tie
\* going up.  The doubles of the code give the same integer for every
\* product the model forms (interval_d < 25, ease factor <= 4.0, no tie
\* that falls between two doubles).
MathRound(num, den) == (2 * num + den) \div (2 * den)

\* (mutant) the quality is used as given, without clamping
ClampQuality_Unclamped(q) == q

\* quality = Math.min(5, Math.max(0, quality))
ClampQuality(q) == Min(MaxQuality, Max(MinQuality, q))

\* 0.1 - (5 - quality) * (0.08 + (5 - quality) * 0.02), in thousandths
EaseDelta(quality) ==
    100 - (MaxQuality - quality) * (80 + (MaxQuality - quality) * 20)

\* (mutant) the floor of 1.3 is not applied
ClampEase_NoFloor(e) == e

\* if (ease_factor < 1.3) ease_factor = 1.3
ClampEase(e) == IF e < MinEase THEN MinEase ELSE e

\* Math.round(ease_factor * 100) / 100, in thousandths
RoundEase(e) == MathRound(e, 10) * 10

\* (mutant) a failed review keeps the interval instead of resetting it to 1
NextInterval_KeepOnFail(current, quality) ==
    IF quality < PassQuality THEN current.interval_d
    ELSE IF current.repetitions = 0 THEN FirstInterval
    ELSE IF current.repetitions = 1 THEN SecondInterval
    ELSE MathRound(current.interval_d * current.ease_factor, 1000)

\* the interval and repetition count after a review of quality `quality`
NextInterval(current, quality) ==
    IF quality < PassQuality THEN FirstInterval
    ELSE IF current.repetitions = 0 THEN FirstInterval
    ELSE IF current.repetitions = 1 THEN SecondInterval
    ELSE MathRound(current.interval_d * current.ease_factor, 1000)

NextRepetitions(current, quality) ==
    IF quality < PassQuality THEN 0 ELSE current.repetitions + 1

\* (mutant) the ease factor is updated before the interval is computed
calculateNextReview_EaseFirst(current, q, clock) ==
    LET quality    == ClampQuality(q)
        ease       == ClampEase(current.ease_factor + EaseDelta(quality))
        interval_d == NextInterval([current EXCEPT !.ease_factor = ease], quality)
    IN  [ease_factor |-> RoundEase(ease),
         interval_d  |-> interval_d,
         repetitions |-> NextRepetitions(current, quality),
         next_review |-> clock + interval_d * TicksPerDay]

\* calculateNextReview(current, quality), called when the clock shows `clock`
calculateNextReview(current, q, clock) ==
    LET quality    == ClampQuality(q)
        interval_d == NextInterval(current, quality)
    IN  [ease_factor |-> RoundEase(ClampEase(current.ease_factor + EaseDelta(quality))),
         interval_d  |-> interval_d,
         repetitions |-> NextRepetitions(current, quality),
         next_review |-> clock + interval_d * TicksPerDay]

\* (mutant) a correct answer counts as a perfect one
answerToQuality_Perfect(isCorrect, confidenceBonus) ==
    IF isCorrect THEN MaxQuality ELSE WrongQuality

\* (mutant) the bonus is added without the cap at 5
answerToQuality_NoCap(isCorrect, confidenceBonus) ==
    IF isCorrect THEN CorrectQuality + confidenceBonus ELSE WrongQuality

\* answerToQuality(isCorrect, confidenceBonus = 0)
answerToQuality(isCorrect, confidenceBonus) ==
    IF isCorrect THEN Min(MaxQuality, CorrectQuality + confidenceBonus)
    ELSE WrongQuality

NoAnswer == [isCorrect |-> FALSE, confidenceBonus |-> 0, given |-> FALSE]

NoResult == [ease_factor |-> 0, interval_d |-> 0, repetitions |-> 0, next_review |-> 0]

\* a scheduler nobody is calling, with the review state `current` at hand
SchedulerIdle(current) ==
    /\ sm_phase = "idle"
    /\ sm_current = current
    /\ sm_answer = NoAnswer
    /\ sm_quality = 0
    /\ sm_result = NoResult

(***************************************************************************)
(* database.js: the tables.  NULL in a time or id column is NoTime or      *)
(* NoProject.  The schema runs with foreign_keys = ON.                     *)
(***************************************************************************)
NoTime == 0 - 1

NoProject == 0

NoSession == 0

EmptySeq == [projects |-> 0, questions |-> 0, sessions |-> 0]

\* target: the id of the project, question or session that a delete, generate,
\* answer or complete request named
NoResponse == [op |-> "none", status |-> 0, error |-> "", sessionId |-> NoSession,
               count |-> 0, target |-> 0]

\* config.js DEFAULTS: dailyQuestionCount
DefaultDailyCount == 7

\* the dailyQuestionCount a config.json may hold (POST /api/config does not
\* write it; the file does)
ConfiguredCounts == {1, DefaultDailyCount}

\* the state of a store that nothing has touched, with that config.json
StoreWith(count) ==
    /\ apiKey = FALSE
    /\ dailyQuestionCount = count
    /\ projects = {}
    /\ questions = {}
    /\ reviews = {}
    /\ sessions = {}
    /\ seq = EmptySeq
    /\ pending = {}
    /\ response = NoResponse
    /\ streak = <<>>

StoreIdle == StoreWith(DefaultDailyCount)

\* SELECT * FROM projects WHERE id = ?
getProjectById(id) == {p \in projects : p.id = id}

\* the review row of a question (reviews.question_id is UNIQUE)
ReviewsOf(questionId) == {r \in reviews : r.question_id = questionId}

\* (a variant whose next_review defaults to a day ahead)
NewReview_DueTomorrow(questionId, clock) ==
    [question_id |-> questionId,
     ease_factor |-> DefaultEase,
     interval_d  |-> DefaultInterval,
     repetitions |-> DefaultRepetitions,
     next_review |-> clock + TicksPerDay,
     last_review |-> NoTime]

\* INSERT INTO reviews (question_id) VALUES (?): the column defaults
NewReview(questionId, clock) ==
    [question_id |-> questionId,
     ease_factor |-> DefaultEase,
     interval_d  |-> DefaultInterval,
     repetitions |-> DefaultRepetitions,
     next_review |-> clock,
     last_review |-> NoTime]

\* (a variant without the condition on next_review)
DueRows_IgnoreTime(clock, projectId) ==
    {r \in reviews :
        \E q \in questions :
           /\ q.id = r.question_id
           /\ (projectId # NoProject => q.project_id = projectId)}

\* the rows getDueQuestions selects: questions joined with their reviews,
\* WHERE r.next_review <= datetime('now') [AND q.project_id = ?]
DueRows(clock, projectId) ==
    {r \in reviews :
        /\ r.next_review <= clock
        /\ \E q \in questions :
              /\ q.id = r.question_id
              /\ (projectId # NoProject => q.project_id = projectId)}

\* ORDER BY r.next_review ASC; rows of equal next_review come in rowid order
Earlier(a, b) ==
    \/ a.next_review < b.next_review
    \/ a.next_review = b.next_review /\ a.question_id < b.question_id

\* the rows in that order (sorted from rowid order, so that a table of a
\* thousand rows can be ordered)
OrderByNextReview(rows) ==
    LET ids   == {r.question_id : r \in rows}
        top   == IF ids = {} THEN 0 ELSE CHOOSE m \in ids : \A o \in ids : o <= m
        idSeq == SelectSeq([i \in 1..top |-> i], LAMBDA i : i \in ids)
    IN  SortSeq([k \in 1..Len(idSeq) |-> CHOOSE r \in rows : r.question_id = idSeq[k]],
                Earlier)

\* LIMIT ?
Limit(rows, count) == SubSeq(rows, 1, Min(count, Len(rows)))

\* (a variant with ORDER BY r.next_review DESC)
getDueQuestions_LatestFirst(count, projectId, clock) ==
    LET rows == OrderByNextReview(DueRows(clock, projectId))
    IN  Limit([i \in 1..Len(rows) |-> rows[Len(rows) + 1 - i]], count)

\* getDueQuestions(count = 7, projectId = null)
getDueQuestions(count, projectId, clock) ==
    Limit(OrderByNextReview(DueRows(clock, projectId)), count)

\* Array.prototype.find: the first row of the question, if any
Find(rows, questionId) ==
    LET hits == {i \in DOMAIN rows : rows[i].question_id = questionId}
    IN  IF hits = {} THEN {}
        ELSE {rows[CHOOSE i \in hits : \A j \in hits : i <= j]}

\* (a variant whose UPDATE has no WHERE clause)
updateReview_EveryRow(questionId, reviewData, clock) ==
    {[question_id |-> r.question_id,
      ease_factor |-> reviewData.ease_factor,
      interval_d  |-> reviewData.interval_d,
      repetitions |-> reviewData.repetitions,
      next_review |-> reviewData.next_review,
      last_review |-> clock] : r \in reviews}

\* (a variant that inserts a row where it should update one)
updateReview_Insert(questionId, reviewData, clock) ==
    reviews \cup {[question_id |-> questionId,
                   ease_factor |-> reviewData.ease_factor,
                   interval_d  |-> reviewData.interval_d,
                   repetitions |-> reviewData.repetitions,
                   next_review |-> reviewData.next_review,
                   last_review |-> clock]}

\* updateReview(questionId, reviewData): UPDATE reviews SET ... WHERE question_id = ?
updateReview(questionId, reviewData, clock) ==
    {IF r.question_id = questionId
       THEN [question_id |-> questionId,
             ease_factor |-> reviewData.ease_factor,
             interval_d  |-> reviewData.interval_d,
             repetitions |-> reviewData.repetitions,
             next_review |-> reviewData.next_review,
             last_review |-> clock]
       ELSE r : r \in reviews}

(***************************************************************************)
(* server.js: the endpoints.  Each request runs to completion; only        *)
(* POST /api/generate suspends, while the LLM call is pending.             *)
(***************************************************************************)
AnswerLookupLimit == 1000

Paths == 1..MaxProjects

ProjectIds == 1..(MaxProjects + 1)

QuestionIds == 1..(MaxQuestions + 1)

Respond(op, status) == [NoResponse EXCEPT !.op = op, !.status = status]

RespondTo(op, id, status) == [Respond(op, status) EXCEPT !.target = id]

\* the clock advances
Tick ==
    /\ now < MaxTime
    /\ now' = now + 1
    /\ UNCHANGED <<smVars, storeVars, clientVars, parserVars>>

\* POST /api/config
SaveConfig ==
    /\ ~apiKey
    /\ apiKey' = TRUE
    /\ response' = Respond("config", 200)
    /\ UNCHANGED <<now, smVars, clientVars, parserVars, dailyQuestionCount, projects,
                   questions, reviews, sessions, seq, pending, streak>>

\* POST /api/scan: upsertProject inserts the path or updates its row
Scan ==
    \E path \in Paths :
        /\ IF \E p \in projects : p.path = path
             THEN UNCHANGED <<projects, seq>>
             ELSE /\ seq.projects < MaxProjects
                  /\ projects' = projects \cup
                                   {[id |-> seq.projects + 1, path |-> path]}
                  /\ seq' = [seq EXCEPT !.projects = @ + 1]
        /\ response' = Respond("scan", 200)
        /\ UNCHANGED <<now, smVars, clientVars, parserVars, apiKey, dailyQuestionCount, questions, reviews, sessions,
                       pending, streak>>

\* DELETE /api/projects/:id: deleteProject; the questions of the project and
\* their reviews go with it (ON DELETE CASCADE), its sessions lose the
\* project (ON DELETE SET NULL)
DeleteProject ==
    \E id \in ProjectIds :
        LET gone == {q.id : q \in {x \in questions : x.project_id = id}}
        IN  /\ IF getProjectById(id) # {}
                 THEN /\ projects' = projects \ getProjectById(id)
                      /\ questions' = {q \in questions : q.project_id # id}
                      /\ reviews' = {r \in reviews : r.question_id \notin gone}
                      /\ sessions' = {IF s.project_id = id
                                        THEN [s EXCEPT !.project_id = NoProject]
                                        ELSE s : s \in sessions}
                      /\ response' = RespondTo("delete", id, 200)
                 ELSE /\ UNCHANGED <<projects, questions, reviews, sessions>>
                      /\ response' = RespondTo("delete", id, 404)
            /\ UNCHANGED <<now, smVars, clientVars, parserVars, apiKey, dailyQuestionCount, seq, pending, streak>>

\* POST /api/generate, up to the LLM call
GenerateStart ==
    \E projectId \in ProjectIds :
        /\ IF ~apiKey
             THEN /\ response' = RespondTo("generate", projectId, 400)
                  /\ UNCHANGED pending
             ELSE IF getProjectById(projectId) = {}
             THEN /\ response' = RespondTo("generate", projectId, 404)
                  /\ UNCHANGED pending
             ELSE /\ Cardinality(pending) < MaxPending
                  /\ [project_id |-> projectId] \notin pending
                  /\ pending' = pending \cup {[project_id |-> projectId]}
                  /\ UNCHANGED response
        /\ UNCHANGED <<now, smVars, clientVars, parserVars, apiKey, dailyQuestionCount, projects, questions, reviews,
                       sessions, seq, streak>>

\* (a variant without the transaction: what was inserted before the failure
\* stays)
insertQuestions_NoTransaction(projectId, n, failAt, clock) ==
    LET done == IF failAt \in 1..n THEN failAt - 1 ELSE n
        ids  == (seq.questions + 1)..(seq.questions + done)
    IN  IF getProjectById(projectId) = {}
          THEN [ok |-> FALSE, questions |-> questions, reviews |-> reviews,
                seq |-> seq, count |-> 0]
          ELSE [ok |-> failAt \notin 1..n,
                questions |-> questions \cup
                                {[id |-> i, project_id |-> projectId] : i \in ids},
                reviews |-> reviews \cup {NewReview(i, clock) : i \in ids},
                seq |-> [seq EXCEPT !.questions = @ + done],
                count |-> done]

\* insertQuestions(projectId, questions): one transaction that inserts each
\* question and its review row.  The INSERT fails on the foreign key when the
\* project is gone, or at the failAt-th question when that one cannot be
\* stored (failAt = 0: none), and the transaction rolls back.
insertQuestions(projectId, n, failAt, clock) ==
    LET ids == (seq.questions + 1)..(seq.questions + n)
    IN  IF getProjectById(projectId) = {} \/ failAt \in 1..n
          THEN [ok |-> FALSE, questions |-> questions, reviews |-> reviews,
                seq |-> seq, count |-> 0]
          ELSE [ok |-> TRUE,
                questions |-> questions \cup
                                {[id |-> i, project_id |-> projectId] : i \in ids},
                reviews |-> reviews \cup {NewReview(i, clock) : i \in ids},
                seq |-> [seq EXCEPT !.questions = @ + n],
                count |-> n]

\* POST /api/generate, from the LLM's answer on: the call failed (n < 0), or
\* the parser recovered n questions from the text; the error of a 500 is
\* "No valid questions generated. Try again." or the message of what was
\* thrown
GenerateFinish ==
    \E req \in pending, n \in (0 - 1)..MaxBatch, failAt \in 0..MaxBatch :
        /\ failAt <= Max(n, 0)
        /\ pending' = pending \ {req}
        /\ IF n <= 0
             THEN /\ response' = [RespondTo("generate", req.project_id, 500) EXCEPT
                                     !.error = IF n = 0 THEN "no questions" ELSE "llm"]
                  /\ UNCHANGED <<questions, reviews, seq, streak>>
             ELSE LET ins == insertQuestions(req.project_id, n, failAt, now)
                  IN  /\ seq.questions + n <= MaxQuestions
                      /\ questions' = ins.questions
                      /\ reviews' = ins.reviews
                      /\ seq' = ins.seq
                      /\ streak' = [i \in 1..ins.seq.questions |->
                                      IF i \in DOMAIN streak THEN streak[i] ELSE 0]
                      /\ response' = IF ins.ok
                                       THEN [RespondTo("generate", req.project_id, 200) EXCEPT
                                               !.count = ins.count]
                                       ELSE [RespondTo("generate", req.project_id, 500) EXCEPT
                                               !.error = "insert"]
        /\ UNCHANGED <<now, smVars, clientVars, parserVars, apiKey, dailyQuestionCount, projects, sessions>>

\* (a variant whose rows start out completed)
createSession_Completed(projectId) ==
    [id |-> seq.sessions + 1, project_id |-> projectId,
     completed_at |-> now, correct |-> 0, total |-> 0]

\* createSession(projectId = null)
createSession(projectId) ==
    [id |-> seq.sessions + 1, project_id |-> projectId,
     completed_at |-> NoTime, correct |-> 0, total |-> 0]

\* config.dailyQuestionCount || 7
DailyCount == IF dailyQuestionCount = 0 THEN DefaultDailyCount ELSE dailyQuestionCount

\* GET /api/quiz/daily[?projectId=]
QuizDaily ==
    \E projectId \in {NoProject} \cup ProjectIds :
        LET served == getDueQuestions(DailyCount, projectId, now)
        IN  /\ IF Len(served) > 0
                 THEN /\ seq.sessions < MaxSessions
                      /\ sessions' = sessions \cup {createSession(projectId)}
                      /\ seq' = [seq EXCEPT !.sessions = @ + 1]
                      /\ response' = [Respond("daily", 200) EXCEPT
                                         !.sessionId = seq.sessions + 1,
                                         !.count = Len(served)]
                 ELSE /\ UNCHANGED <<sessions, seq>>
                      /\ response' = Respond("daily", 200)
            /\ UNCHANGED <<now, smVars, clientVars, parserVars, apiKey, dailyQuestionCount, projects, questions, reviews,
                           pending, streak>>

\* (a variant that reads the question's row whether it is due or not)
currentReview_Stored(questionId, clock) ==
    LET question == ReviewsOf(questionId)
        row      == CHOOSE r \in question : TRUE
    IN  IF question = {}
          THEN [ease_factor |-> DefaultEase, interval_d |-> DefaultInterval,
                repetitions |-> DefaultRepetitions]
          ELSE [ease_factor |-> IF row.ease_factor = 0 THEN DefaultEase
                                ELSE row.ease_factor,
                interval_d  |-> row.interval_d,
                repetitions |-> row.repetitions]

\* the review state POST /api/quiz/answer starts from: the question's row if
\* it is among the first 1000 due questions, the defaults if not; a stored 0
\* is falsy and gives the default too
currentReview(questionId, clock) ==
    LET question == Find(getDueQuestions(AnswerLookupLimit, NoProject, clock), questionId)
        row      == CHOOSE r \in question : TRUE
    IN  IF question = {}
          THEN [ease_factor |-> DefaultEase, interval_d |-> DefaultInterval,
                repetitions |-> DefaultRepetitions]
          ELSE [ease_factor |-> IF row.ease_factor = 0 THEN DefaultEase
                                ELSE row.ease_factor,
                interval_d  |-> row.interval_d,
                repetitions |-> row.repetitions]

\* POST /api/quiz/answer {questionId, isCorrect}
AnswerQuestion(questionId, isCorrect) ==
    LET quality   == answerToQuality(isCorrect, 0)
        newReview == calculateNextReview(currentReview(questionId, now), quality, now)
    IN  /\ (questionId \in DOMAIN streak /\ isCorrect) => streak[questionId] < MaxStreak
        /\ reviews' = updateReview(questionId, newReview, now)
        /\ streak' = [i \in DOMAIN streak |->
                        IF i # questionId \/ ReviewsOf(questionId) = {} THEN streak[i]
                        ELSE IF quality >= PassQuality THEN streak[i] + 1
                        ELSE 0]
        /\ response' = RespondTo("answer", questionId, 200)
        /\ UNCHANGED <<now, smVars, clientVars, parserVars, apiKey, dailyQuestionCount, projects, questions, sessions,
                       seq, pending>>

QuizAnswer ==
    \E questionId \in QuestionIds, isCorrect \in BOOLEAN :
        AnswerQuestion(questionId, isCorrect)

\* an answer to the question that was inserted last
AnswerLast == \E isCorrect \in BOOLEAN : AnswerQuestion(seq.questions, isCorrect)

\* completeSession(sessionId, correct, total): UPDATE sessions SET ... WHERE id = ?
completeSession(sessionId, correct, total) ==
    {IF s.id = sessionId
       THEN [s EXCEPT !.completed_at = now, !.correct = correct, !.total = total]
       ELSE s : s \in sessions}

\* POST /api/quiz/complete {sessionId, correct, total}
QuizComplete ==
    \E sessionId \in 0..(MaxSessions + 1), total \in 0..MaxScore :
        \E correct \in 0..MaxScore :
            /\ IF sessionId = NoSession
                 THEN /\ response' = RespondTo("complete", sessionId, 400)
                      /\ UNCHANGED sessions
                 ELSE /\ sessions' = completeSession(sessionId, correct, total)
                      /\ response' = RespondTo("complete", sessionId, 200)
            /\ UNCHANGED <<now, smVars, clientVars, parserVars, apiKey, dailyQuestionCount, projects, questions, reviews,
                           seq, pending, streak>>

\* the store after one POST /api/generate at time 0 has inserted n
\* questions into the bank of the first project
BankOf(n) ==
    /\ apiKey = TRUE
    /\ dailyQuestionCount = DefaultDailyCount
    /\ projects = {[id |-> 1, path |-> 1]}
    /\ questions = {[id |-> i, project_id |-> 1] : i \in 1..n}
    /\ reviews = {NewReview(i, 0) : i \in 1..n}
    /\ sessions = {}
    /\ seq = [projects |-> 1, questions |-> n, sessions |-> 0]
    /\ pending = {}
    /\ response = [RespondTo("generate", 1, 200) EXCEPT !.count = n]
    /\ streak = [i \in 1..n |-> 0]

\* banks of a few questions, and banks as large as the lookup of
\* POST /api/quiz/answer and one larger
BankSizes == (1..MaxSmallBank) \cup {AnswerLookupLimit, AnswerLookupLimit + 1}

(***************************************************************************)
(* app.js (docs/implementation-plan.md): the quiz view of the client.  A   *)
(* string is the sequence of its characters.                               *)
(***************************************************************************)
UpperCaseLetters == <<"A", "B", "C", "D", "E", "F", "I", "N", "P", "R", "S", "T", "U">>

LowerCaseLetters == <<"a", "b", "c", "d", "e", "f", "i", "n", "p", "r", "s", "t", "u">>

LetterIndex(letters, c) == {i \in DOMAIN letters : letters[i] = c}

LowerChar(c) ==
    IF LetterIndex(UpperCaseLetters, c) = {} THEN c
    ELSE LowerCaseLetters[CHOOSE i \in LetterIndex(UpperCaseLetters, c) : TRUE]

UpperChar(c) ==
    IF LetterIndex(LowerCaseLetters, c) = {} THEN c
    ELSE UpperCaseLetters[CHOOSE i \in LetterIndex(LowerCaseLetters, c) : TRUE]

\* String.prototype.toLowerCase, toUpperCase
toLowerCase(str) == [i \in DOMAIN str |-> LowerChar(str[i])]

toUpperCase(str) == [i \in DOMAIN str |-> UpperChar(str[i])]

\* what the regular expression \s matches
IsSpace(c) == c \in {" ", "\t", "\n"}

RECURSIVE trimStart(_)
trimStart(str) ==
    IF str # <<>> /\ IsSpace(Head(str)) THEN trimStart(Tail(str)) ELSE str

RECURSIVE trimEnd(_)
trimEnd(str) ==
    IF str # <<>> /\ IsSpace(str[Len(str)])
      THEN trimEnd(SubSeq(str, 1, Len(str) - 1))
      ELSE str

\* String.prototype.trim
trim(str) == trimEnd(trimStart(str))

\* String.prototype.charAt(0): the first character, "" for the empty string
charAt0(str) == IF str = <<>> THEN <<>> ELSE <<Head(str)>>

\* str.split(/\s+/): the pieces between the runs of whitespace; `word` is
\* the piece being read
RECURSIVE splitFrom(_, _)
splitFrom(str, word) ==
    IF str = <<>> THEN <<word>>
    ELSE IF IsSpace(Head(str))
      THEN <<word>> \o splitFrom(trimStart(str), <<>>)
      ELSE splitFrom(Tail(str), Append(word, Head(str)))

split(str) == splitFrom(str, <<>>)

\* String.prototype.includes
includes(str, w) ==
    \E i \in 0..(Len(str) - Len(w)) : SubSeq(str, i + 1, i + Len(w)) = w

\* (mutant) only words longer than 4 characters qualify
IsKeyWord_LongerThan4(w) == Len(w) > 4

\* .filter((w) => w.length > 3)
IsKeyWord(w) == Len(w) > 3

\* (mutant) more than half of the words must appear, not at least half
OpenAnswerCorrect_StrictHalf(answer, openAnswer) ==
    LET userAns      == trim(toLowerCase(openAnswer))
        correctAns   == trim(toLowerCase(answer))
        correctWords == SelectSeq(split(correctAns), IsKeyWord)
        matchCount   == Len(SelectSeq(correctWords, LAMBDA w : includes(userAns, w)))
    IN  Len(correctWords) > 0 /\ 2 * matchCount > Len(correctWords)

\* submitOpenAnswer: at least 50% of the answer's words longer than 3
\* characters appear in the response
OpenAnswerCorrect(answer, openAnswer) ==
    LET userAns      == trim(toLowerCase(openAnswer))
        correctAns   == trim(toLowerCase(answer))
        correctWords == SelectSeq(split(correctAns), IsKeyWord)
        matchCount   == Len(SelectSeq(correctWords, LAMBDA w : includes(userAns, w)))
    IN  Len(correctWords) > 0 /\ 2 * matchCount >= Len(correctWords)

\* selectAnswer: the first letters for single-choice, the whole string for
\* true-false, nothing else
ChoiceCorrect(q, choice) ==
    IF q.type = "single-choice"
      THEN toUpperCase(charAt0(choice)) = toUpperCase(charAt0(q.answer))
    ELSE IF q.type = "true-false"
      THEN toLowerCase(choice) = toLowerCase(q.answer)
    ELSE FALSE

\* the texts of the model
RECURSIVE Join(_)
Join(words) ==
    IF words = <<>> THEN <<>>
    ELSE IF Len(words) = 1 THEN Head(words)
    ELSE Head(words) \o <<" ">> \o Join(Tail(words))

StaleCacheAnswer ==
    Join(<<<<"T", "h", "e">>, <<"c", "a", "c", "h", "e">>, <<"r", "e", "t", "u", "r", "n", "s">>, <<"s", "t", "a", "l", "e">>, <<"d", "a", "t", "a">>,
           <<"b", "e", "c", "a", "u", "s", "e">>, <<"e", "v", "i", "c", "t", "i", "o", "n">>, <<"n", "e", "v", "e", "r">>, <<"r", "u", "n", "s">>>>)

ShortWordsAnswer == Join(<<<<"I", "t">>, <<"i", "s">>, <<"a">>, <<"b", "u", "g">>>>)

NullPointerAnswer == Join(<<<<"N", "u", "l", "l">>, <<"p", "o", "i", "n", "t", "e", "r">>>>)

PaddedAnswer == <<" ", " ">> \o <<"S", "t", "a", "l", "e">> \o <<" ", "\t">> \o <<"D", "A", "T", "A">> \o <<"\n">>

QuestionPool ==
    {[type |-> "open", answer |-> StaleCacheAnswer],
     [type |-> "open", answer |-> ShortWordsAnswer],
     [type |-> "find-the-bug", answer |-> NullPointerAnswer],
     [type |-> "open", answer |-> PaddedAnswer],
     [type |-> "single-choice", answer |-> <<"b">>],
     [type |-> "true-false", answer |-> <<"t", "r", "u", "e">>]}

Vocabulary ==
    {<<"c", "a", "c", "h", "e">>, <<"s", "t", "a", "l", "e">>, <<"e", "v", "i", "c", "t", "i", "o", "n">>, <<"d", "a", "t", "a">>, <<"P", "o", "i", "n", "t", "e", "r">>, <<"n", "u", "l", "l">>, <<"t", "h", "e">>, <<"b", "u", "g">>}

RECURSIVE SeqsUpTo(_, _)
SeqsUpTo(S, n) ==
    IF n = 0 THEN {<<>>}
    ELSE LET shorter == SeqsUpTo(S, n - 1)
         IN  shorter \cup {Append(t, x) : t \in shorter, x \in S}

\* what the user may type into the open-answer box
OpenAnswerTexts == {Join(ws) : ws \in SeqsUpTo(Vocabulary, MaxWords)}

\* what the choice buttons may pass to selectAnswer
ChoiceTexts == {<<"A", ")", " ", "n", "o", "t", "h", "i", "n", "g">>, <<"B", ")", " ", "s", "o", "m", "e", "t", "h", "i", "n", "g">>, <<"b">>, <<"T", "r", "u", "e">>, <<"f", "a", "l", "s", "e">>}

NoChoice == <<>>

NoQuiz == <<>>

\* a client that shows no quiz
ClientIdle ==
    /\ quizQuestions = NoQuiz
    /\ quizCurrentIndex = 0
    /\ quizScore = 0
    /\ answered = FALSE
    /\ selectedAnswer = NoChoice
    /\ lastCorrect = FALSE
    /\ openAnswerText = <<>>
    /\ posts = <<>>

\* currentQ; quizCurrentIndex counts from 0
currentQ == quizQuestions[quizCurrentIndex + 1]

InQuiz == quizCurrentIndex < Len(quizQuestions)

\* api("/api/quiz/answer", {questionId, isCorrect, sessionId})
AnswerPost(isCorrect) ==
    [op |-> "answer", questionId |-> quizCurrentIndex + 1, isCorrect |-> isCorrect,
     correct |-> 0, total |-> 0]

\* api("/api/quiz/complete", {sessionId, correct, total})
CompletePost ==
    [op |-> "complete", questionId |-> 0, isCorrect |-> FALSE,
     correct |-> quizScore, total |-> Len(quizQuestions)]

\* the user types into the open-answer box (v-model openAnswerText)
TypeOpenAnswer ==
    /\ InQuiz
    /\ currentQ.type \in {"open", "find-the-bug"}
    /\ ~answered
    /\ openAnswerText = <<>>
    /\ \E t \in OpenAnswerTexts \ {<<>>} : openAnswerText' = t
    /\ UNCHANGED <<quizQuestions, quizCurrentIndex, quizScore, answered,
                   selectedAnswer, lastCorrect, posts>>
    /\ UNCHANGED <<now, smVars, storeVars, parserVars>>

\* (a variant without the early return on an answered question)
selectAnswer_Regrade ==
    /\ InQuiz
    /\ currentQ.type \in {"single-choice", "true-false"}
    /\ Len(posts) <= MaxServed
    /\ \E choice \in ChoiceTexts :
          LET isCorrect == ChoiceCorrect(currentQ, choice)
          IN  /\ selectedAnswer' = choice
              /\ answered' = TRUE
              /\ lastCorrect' = isCorrect
              /\ quizScore' = IF isCorrect THEN quizScore + 1 ELSE quizScore
              /\ posts' = Append(posts, AnswerPost(isCorrect))
    /\ UNCHANGED <<quizQuestions, quizCurrentIndex, openAnswerText>>
    /\ UNCHANGED <<now, smVars, storeVars, parserVars>>

\* selectAnswer(choice)
selectAnswer ==
    /\ InQuiz
    /\ currentQ.type \in {"single-choice", "true-false"}
    /\ \E choice \in ChoiceTexts :
          IF answered
            THEN UNCHANGED <<selectedAnswer, answered, lastCorrect, quizScore, posts>>
            ELSE LET isCorrect == ChoiceCorrect(currentQ, choice)
                 IN  /\ selectedAnswer' = choice
                     /\ answered' = TRUE
                     /\ lastCorrect' = isCorrect
                     /\ quizScore' = IF isCorrect THEN quizScore + 1 ELSE quizScore
                     /\ posts' = Append(posts, AnswerPost(isCorrect))
    /\ UNCHANGED <<quizQuestions, quizCurrentIndex, openAnswerText>>
    /\ UNCHANGED <<now, smVars, storeVars, parserVars>>

\* submitOpenAnswer()
submitOpenAnswer ==
    /\ InQuiz
    /\ currentQ.type \in {"open", "find-the-bug"}
    /\ IF answered
         THEN UNCHANGED <<answered, lastCorrect, quizScore, posts>>
         ELSE LET isCorrect == OpenAnswerCorrect(currentQ.answer, openAnswerText)
              IN  /\ answered' = TRUE
                  /\ lastCorrect' = isCorrect
                  /\ quizScore' = IF isCorrect THEN quizScore + 1 ELSE quizScore
                  /\ posts' = Append(posts, AnswerPost(isCorrect))
    /\ UNCHANGED <<quizQuestions, quizCurrentIndex, selectedAnswer, openAnswerText>>
    /\ UNCHANGED <<now, smVars, storeVars, parserVars>>

\* nextQuestion(): on to the next question; after the last one the session
\* is reported complete
nextQuestion ==
    /\ InQuiz
    /\ quizCurrentIndex' = quizCurrentIndex + 1
    /\ answered' = FALSE
    /\ selectedAnswer' = NoChoice
    /\ openAnswerText' = <<>>
    /\ posts' = IF quizCurrentIndex + 1 >= Len(quizQuestions)
                  THEN Append(posts, CompletePost)
                  ELSE posts
    /\ UNCHANGED <<quizQuestions, quizScore, lastCorrect>>
    /\ UNCHANGED <<now, smVars, storeVars, parserVars>>

(***************************************************************************)
(* quiz-generator.js: the parser of the LLM's answer.  A text is the       *)
(* sequence of its lexemes: a punctuation character, a run of whitespace,  *)
(* a string literal, a number, a literal name (null, true, false), a       *)
(* ``` fence, a bare word or a control character.  The string literals of  *)
(* the model hold no bracket, brace, comma, backtick or control character, *)
(* so the character searches of the code see a lexeme as one unit.         *)
(***************************************************************************)
Tok(kind, text) == [k |-> kind, s |-> text]

LBrace == Tok("p", "{")

RBrace == Tok("p", "}")

LBracket == Tok("p", "[")

RBracket == Tok("p", "]")

Comma == Tok("p", ",")

Colon == Tok("p", ":")

Ws == Tok("ws", " ")

\* three backticks
Fence == Tok("fence", "fence")

Ctl == Tok("ctl", "\\x01")

Str(text) == Tok("str", text)

Num(text) == Tok("num", text)

Kw(text) == Tok("kw", text)

Word(text) == Tok("word", text)

\* a JavaScript value: a string, number or literal name carries its text,
\* an array its elements, an object its members [key, val] in source order
Value(type, text, items) == [t |-> type, s |-> text, items |-> items]

Undefined == Value("undefined", "undefined", <<>>)

Null == Value("kw", "null", <<>>)

StrValue(text) == Value("str", text, <<>>)

ArrValue(items) == Value("arr", "", items)

\* String.prototype.indexOf, lastIndexOf: 0 where the code has -1
IndexOf(toks, t) ==
    IF \E i \in DOMAIN toks : toks[i] = t
      THEN CHOOSE i \in DOMAIN toks :
              toks[i] = t /\ \A j \in 1..(i - 1) : toks[j] # t
      ELSE 0

LastIndexOf(toks, t) ==
    IF \E i \in DOMAIN toks : toks[i] = t
      THEN CHOOSE i \in DOMAIN toks :
              toks[i] = t /\ \A j \in (i + 1)..Len(toks) : toks[j] # t
      ELSE 0

\* the first position from i on that holds no whitespace (Len + 1 if none)
RECURSIVE SkipWs(_, _)
SkipWs(toks, i) ==
    IF i <= Len(toks) /\ toks[i].k = "ws" THEN SkipWs(toks, i + 1) ELSE i

\* String.prototype.trim on a text
RECURSIVE TrimEndWs(_)
TrimEndWs(toks) ==
    IF toks # <<>> /\ toks[Len(toks)].k = "ws"
      THEN TrimEndWs(SubSeq(toks, 1, Len(toks) - 1))
      ELSE toks

TrimWs(toks) == TrimEndWs(SubSeq(toks, SkipWs(toks, 1), Len(toks)))

\* how many times t occurs: (str.match(/\[/g) || []).length
Count(toks, t) == Cardinality({i \in DOMAIN toks : toks[i] = t})

(***************************************************************************)
(* JSON.parse                                                              *)
(***************************************************************************)
ParseFail == [ok |-> FALSE, val |-> Undefined, next |-> 0]

ParseOk(val, next) == [ok |-> TRUE, val |-> val, next |-> next]

At(toks, i, t) == i <= Len(toks) /\ toks[i] = t

RECURSIVE ParseValue(_, _), ParseElements(_, _, _), ParseMembers(_, _, _)

\* the value that starts at position i
ParseValue(toks, i) ==
    IF i > Len(toks) THEN ParseFail
    ELSE IF toks[i].k \in {"str", "num", "kw"}
      THEN ParseOk(Value(toks[i].k, toks[i].s, <<>>), i + 1)
    ELSE IF toks[i] = LBracket
      THEN IF At(toks, SkipWs(toks, i + 1), RBracket)
             THEN ParseOk(ArrValue(<<>>), SkipWs(toks, i + 1) + 1)
             ELSE ParseElements(toks, SkipWs(toks, i + 1), <<>>)
    ELSE IF toks[i] = LBrace
      THEN IF At(toks, SkipWs(toks, i + 1), RBrace)
             THEN ParseOk(Value("obj", "", <<>>), SkipWs(toks, i + 1) + 1)
             ELSE ParseMembers(toks, SkipWs(toks, i + 1), <<>>)
    ELSE ParseFail

\* the elements of an array from position i on, `items` being those read
ParseElements(toks, i, items) ==
    LET v == ParseValue(toks, i)
        j == SkipWs(toks, v.next)
    IN  IF ~v.ok THEN ParseFail
        ELSE IF At(toks, j, Comma)
          THEN ParseElements(toks, SkipWs(toks, j + 1), Append(items, v.val))
        ELSE IF At(toks, j, RBracket)
          THEN ParseOk(ArrValue(Append(items, v.val)), j + 1)
        ELSE ParseFail

\* the members of an object from position i on
ParseMembers(toks, i, items) ==
    LET c == SkipWs(toks, i + 1)
        v == ParseValue(toks, SkipWs(toks, c + 1))
        j == SkipWs(toks, v.next)
    IN  IF ~(i <= Len(toks) /\ toks[i].k = "str" /\ At(toks, c, Colon)) THEN ParseFail
        ELSE IF ~v.ok THEN ParseFail
        ELSE LET member == [key |-> toks[i].s, val |-> v.val]
             IN  IF At(toks, j, Comma)
                   THEN ParseMembers(toks, SkipWs(toks, j + 1), Append(items, member))
                 ELSE IF At(toks, j, RBrace)
                   THEN ParseOk(Value("obj", "", Append(items, member)), j + 1)
                 ELSE ParseFail

\* JSON.parse(text): one value, whitespace around it, nothing else
JSONparse(toks) ==
    LET v == ParseValue(toks, SkipWs(toks, 1))
    IN  IF v.ok /\ SkipWs(toks, v.next) > Len(toks) THEN v ELSE ParseFail

\* q[key]: the last member of that key; undefined on anything but an object
\* (null is the caller's business: reading a property of null throws)
Get(q, key) ==
    LET hits == {i \in DOMAIN q.items : q.items[i].key = key}
    IN  IF q.t # "obj" \/ hits = {} THEN Undefined
        ELSE q.items[CHOOSE i \in hits : \A j \in hits : j <= i].val

\* the integer a number text denotes (the numbers of the model are integers)
NumberTexts == <<"-2", "0", "1", "2", "3", "4", "5", "9">>

NumberValues == <<0 - 2, 0, 1, 2, 3, 4, 5, 9>>

IsNumberText(text) == \E i \in DOMAIN NumberTexts : NumberTexts[i] = text

NumberOf(text) == NumberValues[CHOOSE i \in DOMAIN NumberTexts : NumberTexts[i] = text]

\* whether a value is truthy
Truthy(v) ==
    CASE v.t = "undefined" -> FALSE
      [] v.t = "kw"        -> v.s = "true"
      [] v.t = "str"       -> v.s # ""
      [] v.t = "num"       -> NumberOf(v.s) # 0
      [] OTHER             -> TRUE

\* String(v)
RECURSIVE StringOf(_), JoinItems(_)
StringOf(v) ==
    CASE v.t \in {"undefined", "kw", "str", "num"} -> v.s
      [] v.t = "arr" -> JoinItems(v.items)
      [] OTHER       -> "[object Object]"

\* Array.prototype.join: null and undefined elements give the empty string
JoinItems(items) ==
    LET text(v) == IF v = Null \/ v = Undefined THEN "" ELSE StringOf(v)
    IN  IF items = <<>> THEN ""
        ELSE IF Len(items) = 1 THEN text(items[1])
        ELSE text(items[1]) \o "," \o JoinItems(Tail(items))

NaN == [nan |-> TRUE, n |-> 0]

\* parseInt(v): the integer at the head of String(v), NaN if there is none
parseInt(v) ==
    IF IsNumberText(StringOf(v)) THEN [nan |-> FALSE, n |-> NumberOf(StringOf(v))]
    ELSE NaN

(***************************************************************************)
(* sanitizeJsonString                                                      *)
(***************************************************************************)
\* str.replace(/[\x00-\x08\x0B\x0C\x0E-\x1F]/g, "")
StripControl(toks) == SelectSeq(toks, LAMBDA t : t.k # "ctl")

IsCloser(toks, i) == At(toks, i, RBracket) \/ At(toks, i, RBrace)

\* cleaned.replace(/,\s*([\]}])/g, "$1"): a comma, and the whitespace after
\* it, goes when a ] or } follows
RECURSIVE DropTrailingCommasFrom(_, _)
DropTrailingCommasFrom(toks, i) ==
    IF i > Len(toks) THEN <<>>
    ELSE IF toks[i] = Comma /\ IsCloser(toks, SkipWs(toks, i + 1))
      THEN DropTrailingCommasFrom(toks, SkipWs(toks, i + 1))
      ELSE <<toks[i]>> \o DropTrailingCommasFrom(toks, i + 1)

DropTrailingCommas(toks) == DropTrailingCommasFrom(toks, 1)

\* cleaned.replace(/,\s*$/, "")
DropEndComma(toks) ==
    LET t == TrimEndWs(toks)
    IN  IF t # <<>> /\ t[Len(t)] = Comma THEN SubSeq(t, 1, Len(t) - 1) ELSE toks

RECURSIVE Repeat(_, _)
Repeat(t, n) == IF n <= 0 THEN <<>> ELSE <<t>> \o Repeat(t, n - 1)

\* the repair of a truncated array: with more [ than ], and something other
\* than ] after the last }, cut after that } and close the open brackets
CloseTruncated(cleaned) ==
    LET openBrackets    == Count(cleaned, LBracket)
        closeBrackets   == Count(cleaned, RBracket)
        lastCompleteObj == LastIndexOf(cleaned, RBrace)
        afterLast       == TrimWs(SubSeq(cleaned, lastCompleteObj + 1, Len(cleaned)))
    IN  IF /\ openBrackets > closeBrackets
           /\ lastCompleteObj # 0
           /\ afterLast # <<>>
           /\ afterLast[1] # RBracket
          THEN DropEndComma(SubSeq(cleaned, 1, lastCompleteObj))
                 \o Repeat(RBracket, openBrackets - closeBrackets)
          ELSE cleaned

sanitizeJsonString(str) == CloseTruncated(DropTrailingCommas(StripControl(str)))

(***************************************************************************)
(* parseQuestions                                                          *)
(***************************************************************************)
\* jsonStr.match(/```(?:json)?\s*([\s\S]*?)```/): the text between the first
\* fence that has a fence after it and that next fence, less a json tag
FenceMatch(toks) ==
    LET open  == IndexOf(toks, Fence)
        start == IF At(toks, open + 1, Word("json")) THEN open + 2 ELSE open + 1
        rest  == SubSeq(toks, start, Len(toks))
        close == IndexOf(rest, Fence)
    IN  IF open = 0 \/ close = 0 THEN [found |-> FALSE, inner |-> <<>>]
        ELSE [found |-> TRUE, inner |-> SubSeq(rest, 1, close - 1)]

StripFences(jsonStr) ==
    IF FenceMatch(jsonStr).found THEN TrimWs(FenceMatch(jsonStr).inner) ELSE jsonStr

\* the span from the first [ to the last ]; without both, the span from the
\* first { to the last }, wrapped in [ ]; without those, the text as it is
FindJsonArray(jsonStr) ==
    LET arrayStart == IndexOf(jsonStr, LBracket)
        arrayEnd   == LastIndexOf(jsonStr, RBracket)
        objStart   == IndexOf(jsonStr, LBrace)
        objEnd     == LastIndexOf(jsonStr, RBrace)
    IN  IF arrayStart # 0 /\ arrayEnd # 0
          THEN SubSeq(jsonStr, arrayStart, arrayEnd)
        ELSE IF objStart # 0 /\ objEnd # 0
          THEN <<LBracket>> \o SubSeq(jsonStr, objStart, objEnd) \o <<RBracket>>
        ELSE jsonStr

IsBrace(t) == t = LBrace \/ t = RBrace

\* the first brace from i on (Len + 1 if none)
RECURSIVE SkipToBrace(_, _)
SkipToBrace(toks, i) ==
    IF i <= Len(toks) /\ ~IsBrace(toks[i]) THEN SkipToBrace(toks, i + 1) ELSE i

\* where a match of /\{[^{}]*(?:\{[^{}]*\}[^{}]*)*\}/ that starts at the {
\* of position i ends (0 if there is none); j is the brace being looked at
RECURSIVE ObjectEndFrom(_, _)
ObjectEndFrom(toks, j) ==
    IF At(toks, j, RBrace) THEN j
    ELSE IF At(toks, j, LBrace) /\ At(toks, SkipToBrace(toks, j + 1), RBrace)
      THEN ObjectEndFrom(toks, SkipToBrace(toks, SkipToBrace(toks, j + 1) + 1))
    ELSE 0

ObjectEnd(toks, i) == ObjectEndFrom(toks, SkipToBrace(toks, i + 1))

\* raw.match(/.../g): the matches from left to right, none overlapping
RECURSIVE ObjectMatchesFrom(_, _)
ObjectMatchesFrom(toks, i) ==
    IF i > Len(toks) THEN <<>>
    ELSE IF toks[i] = LBrace /\ ObjectEnd(toks, i) # 0
      THEN <<SubSeq(toks, i, ObjectEnd(toks, i))>>
             \o ObjectMatchesFrom(toks, ObjectEnd(toks, i) + 1)
      ELSE ObjectMatchesFrom(toks, i + 1)

objectMatches(raw) == ObjectMatchesFrom(raw, 1)

\* objectMatches.map(m => JSON.parse(sanitizeJsonString(m)) or null).filter(Boolean)
RECURSIVE ParseEach(_)
ParseEach(matches) ==
    IF matches = <<>> THEN <<>>
    ELSE LET v == JSONparse(sanitizeJsonString(Head(matches)))
         IN  (IF v.ok /\ Truthy(v.val) THEN <<v.val>> ELSE <<>>)
               \o ParseEach(Tail(matches))

\* (a variant that gives up when JSON.parse fails)
ParsedPayload_NoRecovery(raw, jsonStr) ==
    LET v == JSONparse(jsonStr)
    IN  IF v.ok THEN [ok |-> TRUE, val |-> v.val]
        ELSE [ok |-> FALSE, val |-> Undefined]

\* the value parseQuestions goes on with: what JSON.parse makes of the
\* sanitized text or, when that fails, the objects found in the raw text
ParsedPayload(raw, jsonStr) ==
    LET v == JSONparse(jsonStr)
    IN  IF v.ok THEN [ok |-> TRUE, val |-> v.val]
        ELSE IF objectMatches(raw) # <<>>
          THEN [ok |-> TRUE, val |-> ArrValue(ParseEach(objectMatches(raw)))]
        ELSE [ok |-> FALSE, val |-> Undefined]

validTypes == {"single-choice", "true-false", "open", "find-the-bug"}

DefaultDifficulty == 3

MinDifficulty == 1

MaxDifficulty == 5

\* Math.min(5, Math.max(1, parseInt(q.difficulty) || 3))
Difficulty(d) ==
    LET n == IF parseInt(d).nan \/ parseInt(d).n = 0 THEN DefaultDifficulty
             ELSE parseInt(d).n
    IN  Min(MaxDifficulty, Max(MinDifficulty, n))

\* the .filter step on an element that is not null
KeepQuestion(q) == Truthy(Get(q, "question")) /\ Truthy(Get(q, "answer"))

\* the .map step (with the type the .filter step has coerced)
CleanQuestion(q) ==
    [type        |-> IF Get(q, "type").t = "str" /\ Get(q, "type").s \in validTypes
                       THEN Get(q, "type").s
                       ELSE "single-choice",
     difficulty  |-> Difficulty(Get(q, "difficulty")),
     source      |-> IF Get(q, "source") = StrValue("project") THEN "project"
                     ELSE "general",
     question    |-> Get(q, "question"),
     choices     |-> IF Get(q, "choices").t = "arr" THEN Get(q, "choices") ELSE Null,
     answer      |-> StringOf(Get(q, "answer")),
     explanation |-> IF Truthy(Get(q, "explanation")) THEN Get(q, "explanation")
                     ELSE StrValue(""),
     file_path   |-> IF Truthy(Get(q, "file_path")) THEN Get(q, "file_path")
                     ELSE Null]

Returned(qs) == [threw |-> FALSE, questions |-> qs]

Thrown == [threw |-> TRUE, questions |-> <<>>]

\* questions.filter(...).map(...): reading q.question of a null element
\* throws a TypeError, which nothing in parseQuestions catches
RECURSIVE ValidateAll(_)
ValidateAll(elements) ==
    IF elements = <<>> THEN Returned(<<>>)
    ELSE IF Head(elements) = Null THEN Thrown
    ELSE LET rest == ValidateAll(Tail(elements))
         IN  IF rest.threw THEN Thrown
             ELSE IF KeepQuestion(Head(elements))
               THEN Returned(<<CleanQuestion(Head(elements))>> \o rest.questions)
             ELSE rest

\* parseQuestions(raw)
parseQuestions(raw) ==
    LET jsonStr == sanitizeJsonString(FindJsonArray(StripFences(TrimWs(raw))))
        parsed  == ParsedPayload(raw, jsonStr)
    IN  IF TrimWs(raw) = <<>> THEN Returned(<<>>)
        ELSE IF ~parsed.ok THEN Returned(<<>>)
        ELSE IF parsed.val.t = "arr" THEN ValidateAll(parsed.val.items)
        ELSE IF parsed.val.t = "obj" THEN ValidateAll(<<parsed.val>>)
        ELSE Returned(<<>>)

(***************************************************************************)
(* The answers of the LLM the parser is run on: up to MaxElems elements,   *)
(* separated by commas or not, inside [ ] or bare or with the ] missing,   *)
(* with or without a trailing comma, alone or inside a ```json fence or    *)
(* after a line of prose or with a control character in it.                *)
(***************************************************************************)
\* the text "key":value,... of a list of members <<key, value text>>
RECURSIVE MembersText(_)
MembersText(members) ==
    IF members = <<>> THEN <<>>
    ELSE <<Str(members[1][1]), Colon>> \o members[1][2]
           \o (IF Len(members) = 1 THEN <<>> ELSE <<Comma>>)
           \o MembersText(Tail(members))

ObjectText(members) == <<LBrace>> \o MembersText(members) \o <<RBrace>>

QuestionA == ObjectText(<< <<"question", <<Str("A?")>> >>, <<"answer", <<Str("x")>> >> >>)

QuestionB == ObjectText(<< <<"question", <<Str("B?")>> >>, <<"answer", <<Str("y")>> >> >>)

QuestionChoices ==
    ObjectText(<< <<"question", <<Str("C?")>> >>,
                  <<"choices", <<LBracket, Str("a"), Comma, Str("b"), RBracket>> >>,
                  <<"answer", <<Str("b")>> >> >>)

QuestionTyped ==
    ObjectText(<< <<"type", <<Str("true-false")>> >>,
                  <<"difficulty", <<Num("0")>> >>,
                  <<"source", <<Str("project")>> >>,
                  <<"question", <<Str("Q?")>> >>,
                  <<"answer", <<Str("true")>> >> >>)

\* an object whose answer is the empty list, and one without an answer
QuestionListAnswer ==
    ObjectText(<< <<"question", <<Str("E?")>> >>, <<"answer", <<LBracket, RBracket>> >> >>)

QuestionNoAnswer == ObjectText(<< <<"question", <<Str("M?")>> >> >>)

\* an object cut off after "answer":
QuestionCutOff == <<LBrace, Str("question"), Colon, Str("T?"), Comma, Str("answer"), Colon>>

ValidQuestions == {QuestionA, QuestionB, QuestionChoices, QuestionTyped}

\* a question object with that difficulty
QuestionOfDifficulty(d) ==
    ObjectText(<< <<"question", <<Str("D?")>> >>, <<"answer", <<Str("z")>> >>,
                  <<"difficulty", <<d>> >> >>)

\* difficulties below and above the range, and one that is no number
DifficultyQuestions ==
    {QuestionOfDifficulty(d) : d \in {Num("-2"), Num("9"), Str("hard")}}

Elements ==
    ValidQuestions \cup DifficultyQuestions \cup
    {QuestionListAnswer, QuestionNoAnswer, QuestionCutOff,
     <<Kw("null")>>, <<Num("3")>>, <<Str("s")>>, <<LBracket, Str("s"), RBracket>>}

\* the elements of a list, with `sep` between them
RECURSIVE JoinTexts(_, _)
JoinTexts(texts, sep) ==
    IF texts = <<>> THEN <<>>
    ELSE IF Len(texts) = 1 THEN texts[1]
    ELSE texts[1] \o sep \o JoinTexts(Tail(texts), sep)

Separators == {<<>>, <<Comma, Ws>>}

Containers == {"array", "bare", "unclosed"}

Framings == {"plain", "fenced", "prose", "control"}

Payload(elements, sep, container, trailingComma) ==
    (IF container = "bare" THEN <<>> ELSE <<LBracket>>)
      \o JoinTexts(elements, sep)
      \o (IF trailingComma THEN <<Comma>> ELSE <<>>)
      \o (IF container = "array" THEN <<RBracket>> ELSE <<>>)

Framed(payload, framing) ==
    CASE framing = "plain"   -> payload
      [] framing = "fenced"  -> <<Fence, Word("json"), Ws>> \o payload \o <<Ws, Fence>>
      [] framing = "prose"   -> <<Word("Here"), Ws>> \o payload \o <<Ws>>
      [] framing = "control" -> <<Ws, Ctl>> \o payload

\* an answer of up to n elements, whole
ListShapes(n) ==
    [kind : {"list"}, elements : SeqsUpTo(Elements, n), sep : Separators,
     container : Containers, trailingComma : BOOLEAN, framing : Framings,
     at : {0}, inString : {FALSE}]

\* the text of an array of question objects
ArrayText(objects) == Payload(objects, <<Comma, Ws>>, "array", FALSE)

\* an array of up to n valid question objects of which the LLM gave only the
\* first `at` lexemes (the output limit was reached), the cut falling
\* between two lexemes or inside the string literal that comes next
CutShape(objects, k, b) ==
    [kind |-> "cut", elements |-> objects, sep |-> <<Comma, Ws>>,
     container |-> "array", trailingComma |-> FALSE, framing |-> "plain",
     at |-> k, inString |-> b]

CutShapes(n) ==
    UNION {{CutShape(objects, k, FALSE) : k \in 1..(Len(ArrayText(objects)) - 1)}
             \cup {CutShape(objects, k, TRUE) :
                      k \in {j \in 0..(Len(ArrayText(objects)) - 1) :
                                ArrayText(objects)[j + 1].k = "str"}} :
           objects \in SeqsUpTo(ValidQuestions, n) \ {<<>>}}

\* a string literal without its closing quote: no value to JSON.parse, and
\* no bracket, brace or whitespace to the searches
OpenString == Word("\"")

\* the text an answer of that shape is
TextOf(shape) ==
    LET whole == Framed(Payload(shape.elements, shape.sep, shape.container,
                                shape.trailingComma), shape.framing)
    IN  IF shape.kind = "list" THEN whole
        ELSE SubSeq(whole, 1, shape.at)
               \o (IF shape.inString THEN <<OpenString>> ELSE <<>>)

\* the answers of up to n elements
RawInputs(n) == {TextOf(shape) : shape \in ListShapes(n) \cup CutShapes(n)}

NoShape == [kind |-> "none", elements |-> <<>>, sep |-> <<>>, container |-> "bare",
            trailingComma |-> FALSE, framing |-> "plain", at |-> 0, inString |-> FALSE]

NoParse == [status |-> "none", questions |-> <<>>]

ParserIdle == llm_shape = NoShape /\ llm_raw = <<>> /\ llm_parsed = NoParse

\* generateQuestions hands the text of the LLM's answer to parseQuestions
ParseResponse ==
    /\ llm_parsed = NoParse
    /\ llm_parsed' = [status    |-> IF parseQuestions(llm_raw).threw THEN "threw"
                                    ELSE "returned",
                      questions |-> parseQuestions(llm_raw).questions]
    /\ UNCHANGED <<llm_shape, llm_raw, now, smVars, storeVars, clientVars>>

(***************************************************************************)
(* The scheduler on its own: a caller grades an answer (or supplies a      *)
(* self-assessed quality), calls calculateNextReview and persists the      *)
(* result as the question's review state.                                  *)
(***************************************************************************)
EaseInputs == {e \in 1100..MaxEaseIn : e % 20 \in {0, 4, 16}}

QualityInputs == (MinQuality - QualitySlack)..(MaxQuality + QualitySlack)

ReviewInputs ==
    [ease_factor : EaseInputs, interval_d : 0..MaxInterval, repetitions : 0..MaxReps]

\* the caller derives the quality from a right/wrong answer
GradeAnswer ==
    /\ sm_phase = "idle"
    /\ \E isCorrect \in BOOLEAN, bonus \in 0..MaxBonus :
          /\ sm_answer' = [isCorrect |-> isCorrect, confidenceBonus |-> bonus,
                           given |-> TRUE]
          /\ sm_quality' = answerToQuality(isCorrect, bonus)
    /\ sm_phase' = "graded"
    /\ UNCHANGED <<now, sm_current, sm_result, storeVars, clientVars, parserVars>>

\* the caller passes a self-assessed quality, whatever integer it is
SelfAssess ==
    /\ sm_phase = "idle"
    /\ \E q \in QualityInputs : sm_quality' = q
    /\ sm_answer' = NoAnswer
    /\ sm_phase' = "graded"
    /\ UNCHANGED <<now, sm_current, sm_result, storeVars, clientVars, parserVars>>

Schedule ==
    /\ sm_phase = "graded"
    /\ sm_result' = calculateNextReview(sm_current, sm_quality, now)
    /\ sm_phase' = "scheduled"
    /\ UNCHANGED <<now, sm_current, sm_answer, sm_quality, storeVars, clientVars, parserVars>>

\* the caller stores the returned state; the next review starts from it
Persist ==
    /\ sm_phase = "scheduled"
    /\ sm_result.interval_d <= MaxInterval
    /\ sm_result.repetitions <= MaxReps
    /\ sm_result.ease_factor <= MaxEaseIn
    /\ sm_current' = [ease_factor |-> sm_result.ease_factor,
                      interval_d  |-> sm_result.interval_d,
                      repetitions |-> sm_result.repetitions]
    /\ sm_phase' = "idle"
    /\ sm_answer' = NoAnswer
    /\ sm_quality' = 0
    /\ sm_result' = NoResult
    /\ UNCHANGED <<now, storeVars, clientVars, parserVars>>

(***************************************************************************)
(* The specifications.  Spec is the server with its store; SpecSM2 is the  *)
(* scheduler on inputs of every kind; SpecClient is the quiz view of the   *)
(* client on a served batch; SpecParse is the parser on the answers of an  *)
(* LLM.                                                                    *)
(***************************************************************************)
Init ==
    /\ now = 0
    /\ SchedulerIdle([ease_factor |-> DefaultEase, interval_d |-> DefaultInterval,
                      repetitions |-> DefaultRepetitions])
    /\ \E count \in ConfiguredCounts : StoreWith(count)
    /\ ClientIdle
    /\ ParserIdle

Next ==
    \/ Tick
    \/ SaveConfig
    \/ Scan
    \/ DeleteProject
    \/ GenerateStart
    \/ GenerateFinish
    \/ QuizDaily
    \/ QuizAnswer
    \/ QuizComplete

Spec == Init /\ [][Next]_vars

InitSM2 ==
    /\ now = 0
    /\ \E current \in ReviewInputs : SchedulerIdle(current)
    /\ StoreIdle
    /\ ClientIdle
    /\ ParserIdle

NextSM2 == GradeAnswer \/ SelfAssess \/ Schedule \/ Persist

SpecSM2 == InitSM2 /\ [][NextSM2]_vars

\* the state startDailyQuiz leaves when the server served a batch
InitClient ==
    /\ now = 0
    /\ SchedulerIdle([ease_factor |-> DefaultEase, interval_d |-> DefaultInterval,
                      repetitions |-> DefaultRepetitions])
    /\ StoreIdle
    /\ quizQuestions \in SeqsUpTo(QuestionPool, MaxServed) \ {<<>>}
    /\ quizCurrentIndex = 0
    /\ quizScore = 0
    /\ answered = FALSE
    /\ selectedAnswer = NoChoice
    /\ lastCorrect = FALSE
    /\ openAnswerText = <<>>
    /\ posts = <<>>
    /\ ParserIdle

NextClient == TypeOpenAnswer \/ selectAnswer \/ submitOpenAnswer \/ nextQuestion

SpecClient == InitClient /\ [][NextClient]_vars

\* answers to the last question of a bank, over two days
InitBank ==
    /\ now = 0
    /\ SchedulerIdle([ease_factor |-> DefaultEase, interval_d |-> DefaultInterval,
                      repetitions |-> DefaultRepetitions])
    /\ \E n \in BankSizes : BankOf(n)
    /\ ClientIdle
    /\ ParserIdle

NextBank == Tick \/ AnswerLast

SpecBank == InitBank /\ [][NextBank]_vars

\* the parser on every answer of RawInputs(MaxElems)
InitParse ==
    /\ now = 0
    /\ SchedulerIdle([ease_factor |-> DefaultEase, interval_d |-> DefaultInterval,
                      repetitions |-> DefaultRepetitions])
    /\ StoreIdle
    /\ ClientIdle
    /\ llm_shape \in ListShapes(MaxElems) \cup CutShapes(MaxElems)
    /\ llm_raw = TextOf(llm_shape)
    /\ llm_parsed = NoParse

NextParse == ParseResponse

SpecParse == InitParse /\ [][NextParse]_vars

(***************************************************************************)
(* Properties of the review scheduler, checked under SpecSM2.              *)
(***************************************************************************)

\* C1: whatever integer quality and whatever prior review state it is given,
\* calculateNextReview returns an ease factor of at least 1.3, and so the
\* ease factor a caller stores after a review is at least 1.3.
C1_EaseFactorAtLeastMin ==
    /\ [](sm_phase = "scheduled" => sm_result.ease_factor >= 1300)
    /\ [][sm_phase = "scheduled" /\ sm_phase' = "idle"
            => sm_current'.ease_factor >= 1300]_vars

\* a review of out-of-range quality whose unclamped ease would fall below 1.3
C1_Witness ==
    /\ sm_phase = "scheduled"
    /\ sm_quality < 0
    /\ sm_current.ease_factor < 1300
    /\ sm_result.ease_factor = 1300

\* C2: a review of quality below 3 returns repetitions 0 and interval 1,
\* whatever the prior repetitions, interval and ease factor.
C2_FailureResets ==
    (sm_phase = "scheduled" /\ sm_quality < 3)
        => (sm_result.repetitions = 0 /\ sm_result.interval_d = 1)

C2_Witness ==
    /\ sm_phase = "scheduled"
    /\ sm_quality = 2
    /\ sm_current.repetitions = 2
    /\ sm_current.interval_d = 6
    /\ sm_result.repetitions = 0
    /\ sm_result.interval_d = 1

\* n is the integer nearest to num / den, a tie going up
IsNearest(n, num, den) == 2 * den * n - den <= 2 * num /\ 2 * num < 2 * den * n + den

\* C3: a review of quality 3 or more returns interval 1 after no prior
\* repetition, 6 after one, and otherwise the prior interval times the prior
\* ease factor, rounded; the repetitions go up by one.  Repetitions 2,
\* interval 6, ease 2.5 and quality 4 give interval 15.
C3_SuccessInterval ==
    (sm_phase = "scheduled" /\ sm_quality >= 3)
        => /\ sm_result.repetitions = sm_current.repetitions + 1
           /\ sm_current.repetitions = 0 => sm_result.interval_d = 1
           /\ sm_current.repetitions = 1 => sm_result.interval_d = 6
           /\ sm_current.repetitions >= 2 =>
                 IsNearest(sm_result.interval_d,
                           sm_current.interval_d * sm_current.ease_factor, 1000)
           /\ (/\ sm_current.repetitions = 2
               /\ sm_current.interval_d = 6
               /\ sm_current.ease_factor = 2500
               /\ sm_quality = 4) => sm_result.interval_d = 15

\* a third success of quality 3, where the ease factor changes in the same call
C3_Witness ==
    /\ sm_phase = "scheduled"
    /\ sm_quality = 3
    /\ sm_current.repetitions = 2
    /\ sm_current.interval_d = 6
    /\ sm_current.ease_factor = 2500
    /\ sm_result.interval_d = 15
    /\ sm_result.repetitions = 3
    /\ sm_result.ease_factor = 2360

\* the SM-2 change of the ease factor, in thousandths, by clamped quality
SM2Change(q) ==
    CASE q = 5 -> 100
      [] q = 4 -> 0
      [] q = 3 -> -140
      [] q = 2 -> -320
      [] q = 1 -> -540
      [] q = 0 -> -800

\* C4: in either branch the ease factor changes by the SM-2 amount for the
\* clamped quality, is raised to 1.3 if lower, and is returned rounded to two
\* decimals; a quality above 5 counts as 5 and one below 0 as 0.
C4_EaseUpdate ==
    sm_phase = "scheduled" =>
        LET q   == IF sm_quality > 5 THEN 5 ELSE IF sm_quality < 0 THEN 0 ELSE sm_quality
            raw == sm_current.ease_factor + SM2Change(q)
            low == IF raw < 1300 THEN 1300 ELSE raw
        IN  /\ sm_result.ease_factor % 10 = 0
            /\ IsNearest(sm_result.ease_factor \div 10, low, 10)

\* a quality above 5 and an ease factor that is not a whole number of hundredths
C4_Witness ==
    /\ sm_phase = "scheduled"
    /\ sm_quality = 7
    /\ sm_current.ease_factor = 2016
    /\ sm_result.ease_factor = 2120

\* C6: answerToQuality gives 4 for a correct answer, 5 with a confidence
\* bonus of 1, and 1 for every incorrect answer; never 0 and never above 5.
C6_AnswerToQuality ==
    sm_answer.given =>
        /\ (sm_answer.isCorrect /\ sm_answer.confidenceBonus = 0) => sm_quality = 4
        /\ (sm_answer.isCorrect /\ sm_answer.confidenceBonus = 1) => sm_quality = 5
        /\ ~sm_answer.isCorrect => sm_quality = 1
        /\ sm_quality # 0
        /\ sm_quality <= 5

\* a correct answer with a bonus above 1, which the cap keeps at 5
C6_Witness ==
    /\ sm_answer.given
    /\ sm_answer.isCorrect
    /\ sm_answer.confidenceBonus = 2
    /\ sm_quality = 5


(***************************************************************************)
(* Properties of the client's grading, checked under SpecClient.           *)
(***************************************************************************)

\* the open or find-the-bug question on screen has been graded
OpenGraded ==
    /\ InQuiz
    /\ answered
    /\ currentQ.type \in {"open", "find-the-bug"}

\* the words of "The cache returns stale data because eviction never runs"
\* that are longer than 3 characters
StaleCacheKeyWords ==
    {<<"c", "a", "c", "h", "e">>, <<"r", "e", "t", "u", "r", "n", "s">>, <<"s", "t", "a", "l", "e">>, <<"d", "a", "t", "a">>, <<"b", "e", "c", "a", "u", "s", "e">>, <<"e", "v", "i", "c", "t", "i", "o", "n">>, <<"n", "e", "v", "e", "r">>, <<"r", "u", "n", "s">>}

\* the graded question has that answer, and of its key words exactly those
\* of `words` occur in the response
StaleCacheAnsweredWith(words) ==
    /\ OpenGraded
    /\ currentQ.answer = StaleCacheAnswer
    /\ \A w \in StaleCacheKeyWords :
          (\E i \in 0..(Len(openAnswerText) - Len(w)) :
              toLowerCase(SubSeq(openAnswerText, i + 1, i + Len(w))) = w)
             <=> w \in words

WordStarts(str) ==
    {i \in DOMAIN str : ~IsSpace(str[i]) /\ (i = 1 \/ IsSpace(str[i - 1]))}

WordEnd(str, i) ==
    CHOOSE j \in i..Len(str) :
        /\ (j = Len(str) \/ IsSpace(str[j + 1]))
        /\ \A k \in i..j : ~IsSpace(str[k])

LongWordStarts(str) == {i \in WordStarts(str) : WordEnd(str, i) - i + 1 > 3}

\* the long words of `answer` that occur somewhere in `resp`
FoundWordStarts(answer, resp) ==
    {i \in LongWordStarts(answer) :
        LET n == WordEnd(answer, i) - i + 1
        IN  \E k \in 0..(Len(resp) - n) :
               \A d \in 1..n : resp[k + d] = answer[i + d - 1]}

\* C8: an open or find-the-bug response is graded correct exactly when the
\* answer has a word longer than 3 characters and at least half of those
\* words occur in the lowercased response; with no such word it is incorrect.
C8_OpenGrading ==
    OpenGraded =>
        LET answer == toLowerCase(currentQ.answer)
            resp   == toLowerCase(openAnswerText)
            long   == Cardinality(LongWordStarts(answer))
            found  == Cardinality(FoundWordStarts(answer, resp))
        IN  /\ lastCorrect <=> (long >= 1 /\ 2 * found >= long)
            /\ long = 0 => ~lastCorrect

\* exactly half of the answer's long words occur, and the response is correct
C8_Witness ==
    /\ OpenGraded
    /\ currentQ.answer = NullPointerAnswer
    /\ openAnswerText = Join(<<<<"t", "h", "e">>, <<"n", "u", "l", "l">>, <<"b", "u", "g">>>>)
    /\ lastCorrect

(***************************************************************************)
(* Properties of the question bank and the endpoints, checked under Spec.  *)
(***************************************************************************)

\* C5: after any sequence of submitted answers, the repetitions stored for a
\* question equal the number of its consecutive successful reviews since its
\* last failed one (or since it was created).
C5_RepetitionsCountSuccesses ==
    \A r \in reviews : r.repetitions = streak[r.question_id]

(***************************************************************************)
(* Properties of the parser, checked under SpecParse.                      *)
(***************************************************************************)
Parsed == llm_parsed # NoParse

\* C9: parseQuestions never throws: for every input text, also one whose
\* payload parses to an array with null, numbers, strings or nested arrays
\* as elements, it returns a list of questions.
C9_NeverThrows == Parsed => llm_parsed.status = "returned"

\* the questions the objects of a list stand for, in order
QuestionsOf(objects) ==
    [i \in 1..Len(objects) |-> CleanQuestion(JSONparse(objects[i]).val)]

\* C10: from two or more bare valid question objects concatenated with no
\* surrounding array and no separator, parseQuestions recovers one question
\* per object, in input order.
C10_ConcatenatedObjectsRecovered ==
    Parsed =>
      \A objects \in SeqsUpTo(ValidQuestions, MaxElems) :
         Len(objects) >= 2 /\ llm_raw = JoinTexts(objects, <<>>)
           => llm_parsed = [status |-> "returned", questions |-> QuestionsOf(objects)]

\* where the i-th object of an array text starts and ends
RECURSIVE ElementStart(_, _)
ElementStart(objects, i) ==
    IF i = 1 THEN 2
    ELSE ElementStart(objects, i - 1) + Len(objects[i - 1]) + Len(<<Comma, Ws>>)

ElementEnd(objects, i) == ElementStart(objects, i) + Len(objects[i]) - 1

\* the answer is an array of question objects cut off inside its i-th object
CutInside(i) ==
    /\ llm_shape.kind = "cut"
    /\ i \in 1..Len(llm_shape.elements)
    /\ llm_shape.at >= ElementStart(llm_shape.elements, i)
    /\ llm_shape.at < ElementEnd(llm_shape.elements, i)

CutInsideLater == \E i \in 2..MaxElems : CutInside(i)

C12_ReturnedQuestionsWellFormed ==
    \A i \in DOMAIN llm_parsed.questions :
       LET q == llm_parsed.questions[i]
       IN  /\ Truthy(q.question)
           /\ q.answer # ""
           /\ q.type \in validTypes
           /\ q.difficulty \in MinDifficulty..MaxDifficulty
           /\ q.source \in {"project", "general"}
           /\ q.choices = Null \/ q.choices.t = "arr"

\* C26: from an array of question objects cut off inside a later element,
\* parseQuestions recovers every element that is complete before the cut,
\* in order, also when elements contain choices lists.
C26_TruncatedKeepsAllComplete ==
    \A i \in 2..MaxElems :
       (Parsed /\ CutInside(i)) =>
           llm_parsed = [status    |-> "returned",
                         questions |-> QuestionsOf(SubSeq(llm_shape.elements, 1, i - 1))]

\* the answer is a JSON array of question objects, as it is or in a fence
ArrayOfQuestions ==
    /\ llm_shape.kind = "list"
    /\ llm_shape.container = "array"
    /\ llm_shape.sep = <<Comma, Ws>>
    /\ llm_shape.framing \in {"plain", "fenced"}
    /\ llm_shape.elements # <<>>
    /\ \A i \in DOMAIN llm_shape.elements :
          llm_shape.elements[i] \in ValidQuestions \cup DifficultyQuestions

\* the difficulty the i-th object of the answer gives
GivenDifficulty(i) == Get(JSONparse(llm_shape.elements[i]).val, "difficulty")

\* C24: parseQuestions maps a numeric difficulty d to min(5, max(1, d)), so
\* that 0 and negative values become 1 and values above 5 become 5, and a
\* difficulty that is absent or not a number to 3.
C24_DifficultyClamped ==
    (Parsed /\ ArrayOfQuestions) =>
        /\ llm_parsed.status = "returned"
        /\ Len(llm_parsed.questions) = Len(llm_shape.elements)
        /\ \A i \in DOMAIN llm_shape.elements :
              llm_parsed.questions[i].difficulty =
                 IF GivenDifficulty(i).t = "num"
                   THEN (LET d == NumberOf(GivenDifficulty(i).s)
                         IN  IF d < 1 THEN 1 ELSE IF d > 5 THEN 5 ELSE d)
                   ELSE 3

\* the answer is one bare question object and nothing else, so that its
\* first character is {
BareObject ==
    /\ llm_shape.kind = "list"
    /\ llm_shape.container = "bare"
    /\ llm_shape.framing = "plain"
    /\ ~llm_shape.trailingComma
    /\ Len(llm_shape.elements) = 1
    /\ llm_shape.elements[1] \in ValidQuestions

\* C23: a payload that is a single bare valid question object (its first
\* character is {) yields exactly one question, that object's, also when the
\* object contains a choices list.
C23_BareObjectWrapped ==
    (Parsed /\ BareObject) =>
        llm_parsed = [status |-> "returned", questions |-> QuestionsOf(llm_shape.elements)]

(***************************************************************************)
(* Properties of getDueQuestions and the store, checked under Spec.        *)
(***************************************************************************)
\* the project filters a caller can give
ProjectFilters == {NoProject} \cup ProjectIds

\* the rows of a sequence
Rows(rows) == {rows[i] : i \in DOMAIN rows}

\* the review rows of the questions a project filter lets through
ReviewsIn(projectId) ==
    {r \in reviews :
        \E q \in questions :
           q.id = r.question_id /\ (projectId # NoProject => q.project_id = projectId)}

\* C13: getDueQuestions called at time now returns only questions whose
\* next_review is at or before now, never one whose next_review is in the
\* future, and a question is eligible in every call made once now has
\* reached its next_review.
C13_DueOnlyWhenReached ==
    \A projectId \in ProjectFilters :
       /\ \A count \in 0..(MaxQuestions + 1) :
             \A r \in Rows(getDueQuestions(count, projectId, now)) : r.next_review <= now
       /\ \A r \in ReviewsIn(projectId) :
             r.next_review <= now
               => r \in Rows(getDueQuestions(Cardinality(reviews), projectId, now))

\* a question that was answered, was not due for a day, and is due again
\* now that the clock has reached its next_review, beside one that is
\* answered and not due yet
C13_Witness ==
    /\ \E r \in reviews :
          /\ r.last_review # NoTime
          /\ r.next_review > r.last_review
          /\ r.next_review <= now
          /\ r \in Rows(getDueQuestions(DefaultDailyCount, NoProject, now))
    /\ \E r \in reviews :
          /\ r.next_review > now
          /\ r \notin Rows(getDueQuestions(DefaultDailyCount, NoProject, now))

\* the rows that are eligible at the time now under a project filter
Eligible(projectId) == {r \in ReviewsIn(projectId) : r.next_review <= now}

\* the limit the daily quiz is to use: 7 unless config.json says otherwise
DailyLimit ==
    IF dailyQuestionCount = DefaultDailyCount THEN 7 ELSE dailyQuestionCount

\* C14: getDueQuestions(limit, projectId) returns eligible questions only (of
\* the project when one is given), in ascending next_review order, at most
\* limit of them and as many as there are up to the limit, namely those with
\* the earliest next_review; the daily quiz serves with limit 7 unless
\* configured otherwise.
C14_DueOrderAndLimit ==
    /\ [](\A projectId \in ProjectFilters, count \in 0..(MaxQuestions + 1) :
            LET rows == getDueQuestions(count, projectId, now)
            IN  /\ Rows(rows) \subseteq Eligible(projectId)
                /\ Cardinality(Rows(rows)) = Len(rows)
                /\ Len(rows) = Min(count, Cardinality(Eligible(projectId)))
                /\ \A i, j \in DOMAIN rows :
                      i < j => rows[i].next_review <= rows[j].next_review
                /\ \A r \in Rows(rows), o \in Eligible(projectId) \ Rows(rows) :
                      r.next_review <= o.next_review)
    /\ [][(response' # response /\ response'.op = "daily")
            => \E projectId \in ProjectFilters :
                  response'.count = Min(DailyLimit, Cardinality(Eligible(projectId)))]_vars

\* two questions are eligible, the one answered a day ago later than the
\* fresh one; with dailyQuestionCount 1 the daily quiz has served one, and
\* the one getDueQuestions returns for that limit is the earlier
C14_Witness ==
    /\ dailyQuestionCount = 1
    /\ response.op = "daily"
    /\ response.count = 1
    /\ \E r1, r2 \in Eligible(NoProject) :
          /\ r1.next_review < r2.next_review
          /\ getDueQuestions(1, NoProject, now) = <<r1>>

\* a step that ends a generate request: the LLM has answered
GenerateFinishes == pending' # pending /\ pending' \subseteq pending

\* the review state of a question nobody has answered, due from time t on
FreshReview(questionId, t) ==
    [question_id |-> questionId, ease_factor |-> 2500, interval_d |-> 0,
     repetitions |-> 0, next_review |-> t, last_review |-> NoTime]

\* C15: insertQuestions(projectId, questions) with n questions for an
\* existing project (each of which can be stored) adds exactly n questions of
\* that project, returns n, and gives each a review state with ease factor
\* 2.5, interval 0, repetitions 0, no last_review and a next_review that
\* makes it due immediately.
C15_InsertAddsFreshQuestions ==
    /\ [](\A p \in projects, n \in 0..MaxBatch :
            LET ins   == insertQuestions(p.id, n, 0, now)
                added == ins.questions \ questions
            IN  /\ ins.ok /\ ins.count = n
                /\ questions \subseteq ins.questions
                /\ Cardinality(added) = n
                /\ \A q \in added : q.project_id = p.id
                /\ ins.reviews = reviews \cup {FreshReview(q.id, now) : q \in added})
    /\ [][(GenerateFinishes /\ response'.status = 200)
            => /\ Cardinality(questions' \ questions) = response'.count
               /\ response'.count >= 1
               /\ \A q \in questions' \ questions :
                     /\ FreshReview(q.id, now) \in reviews'
                     /\ FreshReview(q.id, now) \in
                           Rows(getDueQuestions(Cardinality(reviews), NoProject, now))']_vars

\* a generate request has just stored two questions, both due at once
C15_Witness ==
    /\ response.op = "generate" /\ response.status = 200 /\ response.count = 2
    /\ Cardinality(questions) = 2
    /\ \A q \in questions :
          FreshReview(q.id, now) \in Rows(getDueQuestions(DefaultDailyCount, NoProject, now))

\* C16: however a generate request is interleaved with other requests (a
\* delete of its project while the LLM call is pending included) and
\* whatever fails inside the batch insert, either every question of the
\* batch is persisted together with its review state or none is.
C16_BatchAllOrNothing ==
    [][GenerateFinishes =>
         LET added == questions' \ questions
         IN  /\ questions \subseteq questions'
             /\ reviews' = reviews \cup {FreshReview(q.id, now) : q \in added}
             /\ IF response'.status = 200
                  THEN Cardinality(added) = response'.count /\ added # {}
                  ELSE added = {} /\ seq' = seq]_vars

\* the project was deleted while the LLM call was pending, and the insert
\* of the batch has failed on it: nothing of the batch is there
C16_Witness ==
    /\ response.op = "generate" /\ response.error = "insert"
    /\ projects = {} /\ seq.projects = 1
    /\ questions = {} /\ reviews = {}

\* C17: in every reachable state of the store every persisted question has
\* exactly one review state, and every persisted review state belongs to
\* exactly one persisted question.
C17_OneReviewPerQuestion ==
    /\ \A q \in questions : Cardinality(ReviewsOf(q.id)) = 1
    /\ \A r \in reviews : Cardinality({q \in questions : q.id = r.question_id}) = 1

\* two questions, one of them answered, and a completed session
C17_Witness ==
    /\ Cardinality(questions) = 2
    /\ \E r \in reviews : r.last_review # NoTime
    /\ \E r \in reviews : r.last_review = NoTime
    /\ \E x \in sessions : x.completed_at # NoTime

\* C18: once a session is completed, its completed_at, correct and total
\* never change again, whatever follows, further complete-session calls with
\* its id included.
C18_CompletedSessionFrozen ==
    [][\A x \in sessions :
          x.completed_at # NoTime =>
             \E y \in sessions' :
                /\ y.id = x.id
                /\ y.completed_at = x.completed_at
                /\ y.correct = x.correct
                /\ y.total = x.total]_vars

\* a step in which GET /api/quiz/daily answers
DailyAnswers ==
    response'.op = "daily" /\ (response' # response \/ sessions' # sessions)

\* C19: the daily quiz creates a new session, not completed and with counts
\* 0, and returns its id exactly when it serves at least one due question;
\* when no question is due it creates no session and returns a null id.
C19_SessionIffServed ==
    [][DailyAnswers =>
         IF response'.count > 0
           THEN /\ response'.sessionId # NoSession
                /\ \A x \in sessions : x.id # response'.sessionId
                /\ \E projectId \in ProjectFilters :
                      /\ Eligible(projectId) # {}
                      /\ sessions' = sessions \cup
                            {[id |-> response'.sessionId, project_id |-> projectId,
                              completed_at |-> NoTime, correct |-> 0, total |-> 0]}
           ELSE /\ response'.sessionId = NoSession
                /\ sessions' = sessions
                /\ \E projectId \in ProjectFilters : Eligible(projectId) = {}]_vars

\* the daily quiz has served two due questions in a new session
C19_Witness ==
    /\ response.op = "daily" /\ response.count = 2
    /\ \E x \in sessions :
          /\ x.id = response.sessionId
          /\ x.completed_at = NoTime /\ x.correct = 0 /\ x.total = 0

\* what the scheduler makes of the defaults (2.5, 0, 0) at the time now: a
\* first success after a correct answer (quality 4), a failure with the
\* ease factor down by 0.54 after a wrong one (quality 1)
FromDefaults(questionId, isCorrect) ==
    [question_id |-> questionId,
     ease_factor |-> IF isCorrect THEN 2500 ELSE 1960,
     interval_d  |-> 1,
     repetitions |-> IF isCorrect THEN 1 ELSE 0,
     next_review |-> now + TicksPerDay,
     last_review |-> now]

Persisted == <<projects, questions, reviews, sessions>>

\* a request that named a project, question or session that does not exist,
\* and was answered at once
UnknownIdRequest ==
    /\ response' # response
    /\ pending' = pending
    /\ \/ /\ response'.op \in {"delete", "generate"}
          /\ getProjectById(response'.target) = {}
       \/ /\ response'.op = "answer"
          /\ \A q \in questions : q.id # response'.target
       \/ /\ response'.op = "complete"
          /\ response'.target # NoSession
          /\ \A x \in sessions : x.id # response'.target

\* C21: every operation that is given the id of a project, question or
\* session that does not exist (generate, delete, answer, complete) reports
\* not found (a generate without an API key may report the missing key
\* first) and changes nothing in the tables.
C21_UnknownIdNotFound ==
    [][UnknownIdRequest =>
         /\ \/ response'.status = 404
            \/ response'.op = "generate" /\ ~apiKey /\ response'.status = 400
         /\ UNCHANGED Persisted]_vars

\* a step of a POST /api/generate that ends in an error: a rejection at once,
\* or the end of a pending request
GenerateFails ==
    /\ response'.op = "generate"
    /\ response'.status # 200
    /\ \/ response' # response /\ pending' = pending
       \/ GenerateFinishes

\* C22: a generate request that fails (no API key, unknown project, the LLM
\* call failed, no question recovered, or the insert failed) reports an error
\* status, and neither that step nor the step that started the request
\* changes the persisted questions and review states.
C22_FailedGenerateChangesNothing ==
    /\ [][GenerateFails =>
            /\ response'.status \in {400, 404, 500}
            /\ UNCHANGED <<questions, reviews>>]_vars
    /\ [][(pending' # pending /\ pending \subseteq pending') =>
            UNCHANGED <<questions, reviews, response>>]_vars

\* a request for a project that has an answered question ended with no
\* question recovered
C22_Witness ==
    /\ response.op = "generate" /\ response.status = 500
    /\ response.error = "no questions"
    /\ \E q \in questions, r \in reviews :
          /\ q.project_id = response.target
          /\ r.question_id = q.id
          /\ r.last_review # NoTime

\* C25: the review state of a persisted question changes only in an answer
\* to that question; it goes only when its question is deleted with its
\* project.  Serving due questions, creating or completing a session,
\* scanning and generating leave every existing review row as it is.
C25_ReviewsChangeOnlyByAnswer ==
    [][\A r \in reviews :
          r \notin reviews' =>
             \/ /\ response'.op = "answer"
                /\ response'.target = r.question_id
                /\ \E n \in reviews' : n.question_id = r.question_id
             \/ /\ response'.op = "delete"
                /\ \A q \in questions' : q.id # r.question_id
                /\ \A n \in reviews' : n.question_id # r.question_id]_vars

\* a question has been answered while another one, never answered, is still
\* as it was inserted
C25_Witness ==
    /\ response.op = "answer"
    /\ \E r \in reviews, o \in reviews :
          /\ r.question_id = response.target
          /\ r.last_review = now
          /\ o.question_id # r.question_id
          /\ \E t \in 0..MaxTime : o = NewReview(o.question_id, t)

\* C27: every review state that an answer has written has an interval of at
\* least one day and a next review that many days after the answer, so the
\* question is not among the due questions, under any project filter, until
\* a day has passed since the answer.
C27_AnsweredNotDueForADay ==
    \A r \in reviews :
       r.last_review # NoTime =>
          /\ r.interval_d >= 1
          /\ r.next_review = r.last_review + r.interval_d * TicksPerDay
          /\ now < r.last_review + TicksPerDay =>
                \A projectId \in ProjectFilters :
                   r \notin Rows(getDueQuestions(AnswerLookupLimit, projectId, now))

\* a question answered wrongly a moment ago, while another question is due
C27_Witness ==
    /\ response.op = "answer"
    /\ \E r \in reviews :
          /\ r.question_id = response.target
          /\ r.last_review = now
          /\ r.repetitions = 0
          /\ getDueQuestions(AnswerLookupLimit, NoProject, now) # <<>>

\* C28: the server derives the quality from isCorrect alone (4 or 1), so the
\* stored ease factor of every question stays within [1.3, 2.5]: it never
\* rises above the initial 2.5.
C28_StoredEaseWithinBounds ==
    \A r \in reviews : MinEase <= r.ease_factor /\ r.ease_factor <= DefaultEase

\* a due question whose ease factor a wrong answer had lowered to 1.96 has
\* been answered correctly, and the ease factor is still 1.96
C28_Witness ==
    /\ response.op = "answer"
    /\ \E r \in reviews :
          /\ r.question_id = response.target
          /\ r.last_review = now
          /\ r.repetitions = 1
          /\ r.ease_factor = 1960

(***************************************************************************)
(* Properties of the client's quiz flow, checked under SpecClient.         *)
(***************************************************************************)
\* the answers the client has posted
AnswerPosts == {i \in DOMAIN posts : posts[i].op = "answer"}

\* C30: each served question is graded at most once: on an answered
\* question nothing is graded or posted until nextQuestion, so no question
\* has two answers posted, quizScore <= answers posted <= questions served,
\* and a complete-session call sends correct <= total.
C30_GradedAtMostOnce ==
    /\ [](/\ \A i \in AnswerPosts, j \in AnswerPosts :
                posts[i].questionId = posts[j].questionId => i = j
          /\ quizScore <= Cardinality(AnswerPosts)
          /\ Cardinality(AnswerPosts) <= quizCurrentIndex + (IF answered THEN 1 ELSE 0)
          /\ quizCurrentIndex + (IF answered THEN 1 ELSE 0) <= Len(quizQuestions)
          /\ \A i \in DOMAIN posts :
                posts[i].op = "complete" =>
                   posts[i].correct <= posts[i].total /\ posts[i].correct = quizScore)
    /\ [][(answered /\ quizCurrentIndex' = quizCurrentIndex)
            => posts' = posts /\ quizScore' = quizScore /\ answered']_vars

\* a quiz of two questions, both answered correctly, has been reported
\* complete with 2 of 2
C30_Witness ==
    /\ Len(quizQuestions) = 2
    /\ quizScore = 2
    /\ Cardinality(AnswerPosts) = 2
    /\ \E i \in DOMAIN posts :
          posts[i].op = "complete" /\ posts[i].correct = 2 /\ posts[i].total = 2

(***************************************************************************)
(* The lookup of POST /api/quiz/answer on a large bank, checked under      *)
(* SpecBank.                                                               *)
(***************************************************************************)
\* what the scheduler makes of the stored state of row r at the time now
FromStored(r, isCorrect) ==
    LET result == calculateNextReview([ease_factor |-> r.ease_factor,
                                       interval_d  |-> r.interval_d,
                                       repetitions |-> r.repetitions],
                                      answerToQuality(isCorrect, 0), now)
    IN  [question_id |-> r.question_id,
         ease_factor |-> result.ease_factor,
         interval_d  |-> result.interval_d,
         repetitions |-> result.repetitions,
         next_review |-> result.next_review,
         last_review |-> now]

\* C29: when an answer is submitted for a question that is due, the
\* scheduler starts from the question's stored ease factor, interval and
\* repetitions, not from the defaults, however many questions are due.
C29_DueAnswerUsesStoredState ==
    [][response'.op = "answer" =>
         \A r \in reviews \ reviews' :
            r.next_review <= now =>
               \E isCorrect \in BOOLEAN :
                  reviews' = (reviews \ {r}) \cup {FromStored(r, isCorrect)}]_vars

=============================================================================
